---- MODULE Spec2Model ----
(***************************************************************************)
(* Model of src/core/file_walker.py: FileWalker.__init__ and the generator *)
(* FileWalker.walk, which filters the triples of os.walk(root, topdown=True)*)
(* File names are sequences of one-character strings so that str.lower()   *)
(* and str.endswith() are computed, paths are sequences of names.          *)
(***************************************************************************)
EXTENDS Naturals, Sequences, FiniteSets, TLC

VARIABLES fs, walker, args, pc, stack, fidx, emitted, listed, failures,
          printed, startFs, dirty, prev, walks, changes

vars == <<fs, walker, args, pc, stack, fidx, emitted, listed, failures,
          printed, startFs, dirty, prev, walks, changes>>

\* ---------------------------------------------------------------- bounds
MaxWalks == 2
MaxChanges == 1

\* ---------------------------------------------------------------- strings
UpperAlpha == <<"A","B","C","D","E","F","G","H","I","J","K","L","M",
                "N","O","P","Q","R","S","T","U","V","W","X","Y","Z">>
LowerAlpha == <<"a","b","c","d","e","f","g","h","i","j","k","l","m",
                "n","o","p","q","r","s","t","u","v","w","x","y","z">>

LowerChar(c) ==
    IF \E i \in 1..Len(UpperAlpha) : UpperAlpha[i] = c
    THEN LowerAlpha[CHOOSE i \in 1..Len(UpperAlpha) : UpperAlpha[i] = c]
    ELSE c

\* str.lower()
Lower(s) == [i \in 1..Len(s) |-> LowerChar(s[i])]

\* str.endswith(suffix)
EndsWith(s, suf) ==
    /\ Len(suf) <= Len(s)
    /\ SubSeq(s, Len(s) - Len(suf) + 1, Len(s)) = suf

Range(s) == {s[i] : i \in 1..Len(s)}

\* all enumerations of a finite set as a sequence without repetition
Orders(S) ==
    {q \in [1..Cardinality(S) -> S] : \A i, j \in 1..Cardinality(S) : q[i] = q[j] => i = j}

\* list comprehension [x for x in s if Keep(x)], order kept
RECURSIVE FilterSeq(_, _)
FilterSeq(s, keep) ==
    IF s = <<>> THEN <<>>
    ELSE IF Head(s) \in keep THEN <<Head(s)>> \o FilterSeq(Tail(s), keep)
         ELSE FilterSeq(Tail(s), keep)

\* ---------------------------------------------------------------- names
Dot      == <<".">>
DotDot   == <<".", ".">>
n_tmp    == <<"t","m","p">>
n_proj   == <<"p","r","o","j">>
n_git    == <<".","g","i","t">>
n_pyc    == <<"_","_","p","y","c","a","c","h","e","_","_">>
n_nm     == <<"n","o","d","e","_","m","o","d","u","l","e","s">>
n_venv   == <<"v","e","n","v">>
n_env    == <<"e","n","v">>
n_dist   == <<"d","i","s","t">>
n_build  == <<"b","u","i","l","d">>
n_ENV    == <<"E","N","V">>
n_sub    == <<"s","u","b">>
n_lp     == <<"l","p">>
n_nx     == <<"n","x">>
f_a_py   == <<"a",".","p","y">>
f_b_PY   == <<"b",".","P","Y">>
f_c_txt  == <<"c",".","t","x","t">>
f_h_py   == <<"h",".","p","y">>
f_o_py   == <<"o",".","p","y">>
f_z_py   == <<"z",".","p","y">>
f_n_py   == <<"n",".","P","y">>
f_e_py   == <<"e",".","p","y">>
e_py     == <<".","p","y">>
e_PY     == <<".","P","Y">>
e_txt    == <<".","t","x","t">>

\* ---------------------------------------------------------------- filesystem
\* fs maps an absolute path (sequence of names) to its entry.
NoPath == <<>>
D == [kind |-> "dir", target |-> NoPath]
F == [kind |-> "file", target |-> NoPath]
Locked == [kind |-> "locked", target |-> NoPath]
L(t) == [kind |-> "link", target |-> t]

p_proj  == <<n_tmp, n_proj>>
p_sub   == <<n_tmp, n_proj, n_sub>>
p_build == <<n_tmp, n_proj, n_build>>

Tree0 ==
    ( <<>>                                   :> D
   @@ <<n_tmp>>                              :> D
   @@ p_proj                                 :> D
   @@ (p_proj \o <<f_a_py>>)                 :> F
   @@ (p_proj \o <<n_git>>)                  :> D
   @@ (p_proj \o <<n_git, f_h_py>>)          :> F
   @@ p_sub                                  :> D
   @@ (p_sub \o <<f_b_PY>>)                  :> F
   @@ (p_sub \o <<f_c_txt>>)                 :> F
   @@ (p_sub \o <<n_lp>>)                    :> L(p_proj)
   @@ (p_proj \o <<n_ENV>>)                  :> D
   @@ (p_proj \o <<n_ENV, f_e_py>>)          :> F
   @@ p_build                                :> D
   @@ (p_build \o <<f_o_py>>)                :> F
   @@ (p_build \o <<n_ENV>>)                 :> D
   @@ (p_build \o <<n_ENV, f_z_py>>)         :> F )

Cwd == <<n_tmp>>

IsPrefix(p, q) == Len(p) <= Len(q) /\ SubSeq(q, 1, Len(p)) = p
IsProperPrefix(p, q) == Len(p) < Len(q) /\ SubSeq(q, 1, Len(p)) = p
Parent(p) == SubSeq(p, 1, Len(p) - 1)
Basename(p) == p[Len(p)]

\* the real path a path names, every symlink component followed
\* (each intermediate path is bound by a quantifier over a singleton, so that
\* it is computed once)
Deref(f, r) == IF r \in DOMAIN f /\ f[r].kind = "link" THEN f[r].target ELSE r

RECURSIVE Resolve(_, _)
Resolve(f, p) ==
    IF p = <<>> THEN <<>>
    ELSE CHOOSE x \in {Deref(f, r) : r \in {Resolve(f, Parent(p)) \o <<Basename(p)>>}} : TRUE

\* os.scandir(p) succeeds
ScandirOk(f, p) ==
    \E r \in {Resolve(f, p)} : r \in DOMAIN f /\ f[r].kind = "dir"

Children(f, p) ==
    UNION {{q \in DOMAIN f : Len(q) = Len(r) + 1 /\ IsPrefix(r, q)} : r \in {Resolve(f, p)}}

\* entry.is_dir(): follows symlinks
EntryIsDir(f, q) ==
    \/ f[q].kind \in {"dir", "locked"}
    \/ /\ f[q].kind = "link"
       /\ f[q].target \in DOMAIN f
       /\ f[f[q].target].kind \in {"dir", "locked"}

DirNames(f, p) == {Basename(q) : q \in {c \in Children(f, p) : EntryIsDir(f, c)}}
FileNames(f, p) == {Basename(q) : q \in {c \in Children(f, p) : ~EntryIsDir(f, c)}}

\* os.path.islink(new_path)
IsLink(f, p) ==
    \E r \in {Resolve(f, Parent(p)) \o <<Basename(p)>>} :
        r \in DOMAIN f /\ f[r].kind = "link"

\* ---------------------------------------------------------------- __init__
\* os.path.normpath on the components: "." dropped, ".." pops
RECURSIVE NormPath(_, _)
NormPath(acc, rest) ==
    IF rest = <<>> THEN acc
    ELSE IF Head(rest) = Dot THEN NormPath(acc, Tail(rest))
    ELSE IF Head(rest) = DotDot
         THEN NormPath(IF acc = <<>> THEN acc ELSE Parent(acc), Tail(rest))
    ELSE NormPath(acc \o <<Head(rest)>>, Tail(rest))

\* os.path.abspath(root_dir)
AbsPath(cwd, a) == NormPath(<<>>, IF a.abs THEN a.comps ELSE cwd \o a.comps)

\* faulty variant: the extensions are stored as given
InitExtensionsAsGiven(ext) ==
    IF ext.given /\ ext.list # <<>> THEN ext.list ELSE <<e_py>>

\* faulty variant: only an absent argument gets the default
InitExtensionsNoneOnly(ext) ==
    IF ext.given
    THEN [i \in 1..Len(ext.list) |-> Lower(ext.list[i])]
    ELSE <<e_py>>

\* [e.lower() for e in extensions] if extensions else ['.py']
InitExtensions(ext) ==
    IF ext.given /\ ext.list # <<>>
    THEN [i \in 1..Len(ext.list) |-> Lower(ext.list[i])]
    ELSE <<e_py>>

IgnoreDirs == {n_git, n_pyc, n_nm, n_venv, n_env, n_dist, n_build}

FileWalker(cwd, a) ==
    [root_dir   |-> AbsPath(cwd, a.root_dir),
     extensions |-> InitExtensions(a.extensions),
     ignore_dirs |-> IgnoreDirs]

\* the constructor calls the model explores
RootArgs ==
    { [abs |-> FALSE, comps |-> <<n_proj>>],
      [abs |-> TRUE,  comps |-> p_build],
      [abs |-> FALSE, comps |-> <<Dot, n_proj, DotDot, n_proj, n_build, n_ENV>>],
      [abs |-> FALSE, comps |-> <<n_nx>>] }

ExtArgs ==
    { [given |-> FALSE, list |-> <<>>],
      [given |-> TRUE,  list |-> <<>>],
      [given |-> TRUE,  list |-> <<e_PY>>],
      [given |-> TRUE,  list |-> <<e_txt, e_py>>] }

\* ---------------------------------------------------------------- walk
\* faulty variant: os.walk(..., topdown=False), os.walk(..., followlinks=True)
TopDownFalse == FALSE
FollowLinksTrue == TRUE

\* arguments of the os.walk call
TopDown == TRUE
FollowLinks == FALSE

\* faulty variant: the filtered list is not assigned back into dirs
PruneNothing(dirs, ignore) == dirs

\* dirs[:] = [d for d in dirs if d not in self.ignore_dirs]
Prune(dirs, ignore) == FilterSeq(dirs, Range(dirs) \ ignore)

\* faulty variant: file.endswith(ext), the name not lowercased
MatchesCaseSensitive(file, exts) == \E i \in 1..Len(exts) : EndsWith(file, exts[i])

\* any(file.lower().endswith(ext) for ext in self.extensions)
Matches(file, exts) == \E i \in 1..Len(exts) : EndsWith(Lower(file), exts[i])

\* os.path.join(root, file)
Join(root, file) == root \o <<file>>

\* faulty variant: no notice
StartNoticeMissing(w) == <<>>

\* print(f"Scanning: {self.root_dir}...")
StartNotice(w) == <<w.root_dir>>

\* faulty variant: the ignore-set is applied to the root as well
InitialFramesFiltered(w) ==
    IF w.root_dir # <<>> /\ w.root_dir[Len(w.root_dir)] \in w.ignore_dirs
    THEN <<>>
    ELSE <<[top |-> w.root_dir, dirs |-> <<>>, files |-> <<>>, k |-> 0, ph |-> "enter"]>>

\* os.walk(self.root_dir): the walk starts at the root, whatever its name
InitialFrames(w) ==
    <<[top |-> w.root_dir, dirs |-> <<>>, files |-> <<>>, k |-> 0, ph |-> "enter"]>>

\* faulty variant: the OSError of a failed listing reaches the consumer
AfterListErrorRaise == "raised"

\* os.walk with onerror=None: a failed listing ends that directory silently
AfterListError == "walking"

Top == stack[Len(stack)]
Pop == SubSeq(stack, 1, Len(stack) - 1)
SetTop(fr) == [stack EXCEPT ![Len(stack)] = fr]
InProgress == pc \in {"created", "walking", "files", "yielded"}

NoPrev == [has |-> FALSE, fs |-> <<>>, result |-> {}]

Init ==
    /\ fs = Tree0
    /\ args \in [root_dir : RootArgs, extensions : ExtArgs]
    /\ walker = FileWalker(Cwd, args)
    /\ pc = "none"
    /\ stack = <<>>
    /\ fidx = 1
    /\ emitted = <<>>
    /\ listed = <<>>
    /\ failures = <<>>
    /\ printed = <<>>
    /\ startFs = Tree0
    /\ dirty = FALSE
    /\ prev = NoPrev
    /\ walks = 0
    /\ changes = 0

\* faulty variant: a walker that has completed a traversal replays its result
CallWalkCached ==
    /\ pc \in {"none", "done"}
    /\ walks < MaxWalks
    /\ walks' = walks + 1
    /\ prev' = IF pc = "done" /\ ~dirty
               THEN [has |-> TRUE, fs |-> startFs, result |-> Range(emitted)]
               ELSE prev
    /\ IF pc = "done"
       THEN /\ pc' = "done"
            /\ emitted' = emitted
            /\ listed' = listed
            /\ failures' = failures
            /\ printed' = printed
       ELSE /\ pc' = "created"
            /\ emitted' = <<>>
            /\ listed' = <<>>
            /\ failures' = <<>>
            /\ printed' = <<>>
    /\ stack' = <<>>
    /\ fidx' = 1
    /\ startFs' = fs
    /\ dirty' = FALSE
    /\ UNCHANGED <<fs, walker, args, changes>>

\* g = walker.walk(): a generator object, no line of the body has run
CallWalk ==
    /\ pc \in {"none", "done"}
    /\ walks < MaxWalks
    /\ walks' = walks + 1
    /\ prev' = IF pc = "done" /\ ~dirty
               THEN [has |-> TRUE, fs |-> startFs, result |-> Range(emitted)]
               ELSE prev
    /\ pc' = "created"
    /\ stack' = <<>>
    /\ fidx' = 1
    /\ emitted' = <<>>
    /\ listed' = <<>>
    /\ failures' = <<>>
    /\ printed' = <<>>
    /\ startFs' = fs
    /\ dirty' = FALSE
    /\ UNCHANGED <<fs, walker, args, changes>>

\* first next(g): the notice is printed and os.walk starts
PullFirst ==
    /\ pc = "created"
    /\ printed' = printed \o StartNotice(walker)
    /\ stack' = InitialFrames(walker)
    /\ pc' = "walking"
    /\ UNCHANGED <<fs, walker, args, fidx, emitted, listed, failures,
                   startFs, dirty, prev, walks, changes>>

\* a later next(g): the generator resumes after the yield
PullNext ==
    /\ pc = "yielded"
    /\ pc' = "files"
    /\ UNCHANGED <<fs, walker, args, stack, fidx, emitted, listed, failures,
                   printed, startFs, dirty, prev, walks, changes>>

\* os.walk lists a directory; top-down it hands the triple to walk(),
\* which prunes dirs in place and starts on the files
ScanOk ==
    /\ pc = "walking"
    /\ stack # <<>>
    /\ Top.ph = "enter"
    /\ ScandirOk(fs, Top.top)
    /\ \E ds \in Orders(DirNames(fs, Top.top)), fl \in Orders(FileNames(fs, Top.top)) :
         IF TopDown
         THEN /\ stack' = SetTop([Top EXCEPT !.dirs = Prune(ds, walker.ignore_dirs),
                                             !.files = fl, !.ph = "descend"])
              /\ pc' = "files"
              /\ fidx' = 1
         ELSE /\ stack' = SetTop([Top EXCEPT !.dirs = ds, !.files = fl, !.ph = "descend"])
              /\ pc' = "walking"
              /\ fidx' = fidx
    /\ listed' = Append(listed, Top.top)
    /\ UNCHANGED <<fs, walker, args, emitted, failures, printed,
                   startFs, dirty, prev, walks, changes>>

\* os.scandir raises OSError: the error goes to onerror (None) and is dropped
ScanFail ==
    /\ pc = "walking"
    /\ stack # <<>>
    /\ Top.ph = "enter"
    /\ ~ScandirOk(fs, Top.top)
    /\ failures' = Append(failures, [dir |-> Top.top, at |-> Len(emitted)])
    /\ stack' = Pop
    /\ pc' = AfterListError
    /\ UNCHANGED <<fs, walker, args, fidx, emitted, listed, printed,
                   startFs, dirty, prev, walks, changes>>

\* os.walk after the yield: recurse into the next remaining subdirectory,
\* symlinks skipped unless followlinks; bottom-up the triple is yielded last
Descend ==
    /\ pc = "walking"
    /\ stack # <<>>
    /\ Top.ph \in {"descend", "exit"}
    /\ IF Top.ph = "descend" /\ Top.k < Len(Top.dirs)
       THEN LET new_path == Join(Top.top, Top.dirs[Top.k + 1])
                adv == SetTop([Top EXCEPT !.k = Top.k + 1])
            IN /\ stack' = IF FollowLinks \/ ~IsLink(fs, new_path)
                           THEN Append(adv, [top |-> new_path, dirs |-> <<>>,
                                             files |-> <<>>, k |-> 0, ph |-> "enter"])
                           ELSE adv
               /\ UNCHANGED <<pc, fidx>>
       ELSE IF Top.ph = "descend" /\ ~TopDown
       THEN /\ stack' = SetTop([Top EXCEPT !.dirs = Prune(Top.dirs, walker.ignore_dirs),
                                           !.ph = "exit"])
            /\ pc' = "files"
            /\ fidx' = 1
       ELSE /\ stack' = Pop
            /\ UNCHANGED <<pc, fidx>>
    /\ UNCHANGED <<fs, walker, args, emitted, listed, failures, printed,
                   startFs, dirty, prev, walks, changes>>

\* for file in files: if any(...): yield os.path.join(root, file)
NextFile ==
    /\ pc = "files"
    /\ IF fidx <= Len(Top.files)
       THEN /\ fidx' = fidx + 1
            /\ IF Matches(Top.files[fidx], walker.extensions)
               THEN /\ emitted' = Append(emitted, Join(Top.top, Top.files[fidx]))
                    /\ pc' = "yielded"
               ELSE UNCHANGED <<emitted, pc>>
       ELSE /\ pc' = "walking"
            /\ UNCHANGED <<fidx, emitted>>
    /\ UNCHANGED <<fs, walker, args, stack, listed, failures, printed,
                   startFs, dirty, prev, walks, changes>>

\* os.walk is exhausted: the for loop ends and the generator returns
Finish ==
    /\ pc = "walking"
    /\ stack = <<>>
    /\ pc' = "done"
    /\ UNCHANGED <<fs, walker, args, stack, fidx, emitted, listed, failures,
                   printed, startFs, dirty, prev, walks, changes>>

\* ---------------------------------------------------------------- environment
\* other processes change the tree: rm -r, chmod 000, touch
RemoveTargets == {p_sub}
LockTargets == {p_sub, p_build}
AddTargets == {p_proj \o <<f_n_py>>}

Changed ==
    /\ changes < MaxChanges
    /\ changes' = changes + 1
    /\ dirty' = (dirty \/ InProgress)
    /\ UNCHANGED <<walker, args, pc, stack, fidx, emitted, listed, failures,
                   printed, startFs, prev, walks>>

RemoveTree ==
    /\ \E p \in RemoveTargets :
         /\ p \in DOMAIN fs
         /\ fs' = [q \in {x \in DOMAIN fs : ~IsPrefix(p, x)} |-> fs[q]]
    /\ Changed

Chmod ==
    /\ \E p \in LockTargets :
         /\ p \in DOMAIN fs
         /\ fs[p].kind = "dir"
         /\ fs' = [fs EXCEPT ![p] = Locked]
    /\ Changed

AddFile ==
    /\ \E p \in AddTargets :
         /\ p \notin DOMAIN fs
         /\ Parent(p) \in DOMAIN fs
         /\ fs[Parent(p)].kind = "dir"
         /\ fs' = (p :> F) @@ fs
    /\ Changed

Next ==
    \/ CallWalk
    \/ PullFirst
    \/ PullNext
    \/ ScanOk
    \/ ScanFail
    \/ Descend
    \/ NextFile
    \/ Finish
    \/ RemoveTree
    \/ Chmod
    \/ AddFile

Spec == Init /\ [][Next]_vars

\* the generator body runs on once pulled, and the consumer keeps pulling
FairSpec ==
    /\ Spec
    /\ WF_vars(PullFirst \/ PullNext)
    /\ WF_vars(ScanOk \/ ScanFail \/ Descend \/ NextFile \/ Finish)

\* ---------------------------------------------------------------- properties
Root == walker.root_dir
EmittedSet == Range(emitted)
Attempted == Range(listed) \cup {failures[i].dir : i \in 1..Len(failures)}
Complete == pc = "done" /\ ~dirty

\* lower(name) ends with some member of the extension list E
SuffixIn(name, E) == \E e \in Range(E) : EndsWith(Lower(name), e)

\* the components of p from position lo up to its directory part carry no ignored name
NoIgnoredFrom(p, lo) == \A i \in lo..(Len(p) - 1) : i >= 1 => p[i] \notin IgnoreDirs

FilesOf(f) == {p \in DOMAIN f : f[p].kind = "file"}

\* C1 as stated: a complete walk emits exactly the files of the tree rooted at
\* the walker's root whose lowercased name ends with a member of the extension
\* list, minus every file under a directory of that tree with an ignored name,
\* the root directory of the tree included.
C1_EveryIgnoredNameExcludes ==
    (Complete /\ failures = <<>>) =>
        EmittedSet = {p \in FilesOf(startFs) :
                        /\ IsProperPrefix(Root, p)
                        /\ SuffixIn(Basename(p), walker.extensions)
                        /\ NoIgnoredFrom(p, Len(Root))}

\* C1 amended: as above, the ignored names counted only for directories
\* strictly below the root, every listing of the walk having succeeded.
C1_EmittedSetExact ==
    (Complete /\ failures = <<>>) =>
        EmittedSet = {p \in FilesOf(startFs) :
                        /\ IsProperPrefix(Root, p)
                        /\ SuffixIn(Basename(p), walker.extensions)
                        /\ NoIgnoredFrom(p, Len(Root) + 1)}

C1_Witness ==
    /\ Complete
    /\ failures = <<>>
    /\ Root = p_proj
    /\ (p_sub \o <<f_b_PY>>) \in EmittedSet
    /\ (p_proj \o <<n_git, f_h_py>>) \in FilesOf(startFs)
    /\ (p_sub \o <<f_c_txt>>) \in FilesOf(startFs)

\* C2: in every state of a traversal no directory at or below a subdirectory
\* with an ignored name has been listed (or tried), and no path below one has
\* been emitted.
C2_PrunedNeverVisited ==
    /\ \A d \in Attempted : NoIgnoredFrom(d, Len(Root) + 1) /\ (Len(d) > Len(Root) => d[Len(d)] \notin IgnoreDirs)
    /\ \A p \in EmittedSet : NoIgnoredFrom(p, Len(Root) + 1)

C2_Witness ==
    /\ pc = "done"
    /\ Root = p_proj
    /\ p_proj \in Range(listed)
    /\ (p_build \o <<n_ENV, f_z_py>>) \in FilesOf(fs)
    /\ SuffixIn(f_z_py, walker.extensions)
    /\ (p_proj \o <<n_git, f_h_py>>) \in FilesOf(fs)

\* C3 as stated: a listing failure aborts the traversal and is surfaced to
\* the consumer.
C3_FailureSurfaced == failures # <<>> => pc = "raised"

\* C3 amended: a listing failure is dropped by os.walk: the step that meets it
\* emits nothing, leaves the generator running on the remaining directories,
\* no state ever has the failure raised to the consumer, and within one
\* traversal the emitted paths only grow.
C3_FailureSuppressed ==
    [][ /\ pc' # "raised"
        /\ Len(failures') > Len(failures) =>
              /\ emitted' = emitted
              /\ pc' = "walking"
              /\ stack' = Pop
        /\ walks' = walks => IsPrefix(emitted, emitted') ]_vars

C3_Witness ==
    /\ pc = "done"
    /\ \E i \in 1..Len(failures) : failures[i].at < Len(emitted)

\* C4: with extensions configured, a file of a listed directory is emitted
\* exactly when its lowercased name ends with the lowercased form of some
\* configured extension.
C4_CaseInsensitive ==
    (Complete /\ args.extensions.given /\ args.extensions.list # <<>>) =>
        \A d \in Range(listed) : \A f \in FileNames(startFs, d) :
            (Join(d, f) \in EmittedSet) <=>
                (\E e \in Range(args.extensions.list) : EndsWith(Lower(f), Lower(e)))

C4_Witness ==
    /\ Complete
    /\ args.extensions.list = <<e_PY>>
    /\ (p_proj \o <<f_a_py>>) \in EmittedSet
    /\ (p_sub \o <<f_b_PY>>) \in EmittedSet

\* C5: with the extensions argument absent or empty the extension list is the
\* single entry .py and only names whose lowercased form ends with .py are emitted.
C5_DefaultExtension ==
    (~args.extensions.given \/ args.extensions.list = <<>>) =>
        /\ walker.extensions = <<e_py>>
        /\ \A p \in EmittedSet : EndsWith(Lower(Basename(p)), e_py)

C5_Witness ==
    /\ args.extensions.given
    /\ args.extensions.list = <<>>
    /\ pc = "done"
    /\ (p_sub \o <<f_b_PY>>) \in EmittedSet

\* C6: a complete traversal of the tree the previous complete traversal saw
\* yields the same set; a complete traversal emits only files of the tree it
\* started on and every matching file directly in a listed root that the
\* previous traversal's tree did not have; no step changes the walker.
C6_Restartable ==
    /\ [](Complete /\ prev.has /\ prev.fs = startFs => EmittedSet = prev.result)
    /\ [](Complete => EmittedSet \subseteq FilesOf(startFs))
    /\ [](Complete /\ prev.has /\ Root \in Range(listed) =>
            \A f \in FileNames(startFs, Root) :
                (Join(Root, f) \notin DOMAIN prev.fs /\ SuffixIn(f, walker.extensions))
                    => Join(Root, f) \in EmittedSet)
    /\ [][walker' = walker]_vars

C6_Witness ==
    /\ Complete
    /\ prev.has
    /\ prev.fs # startFs
    /\ prev.result # EmittedSet
    /\ prev.result # {}

C8_TopDownLazy ==
    /\ \A i, j \in 1..Len(emitted) :
          IsProperPrefix(Parent(emitted[i]), Parent(emitted[j])) => i < j
    /\ pc = "yielded" =>
          \A d \in Attempted : ~IsProperPrefix(Parent(emitted[Len(emitted)]), d)

C8_Witness ==
    /\ pc = "yielded"
    /\ stack # <<>>
    /\ Top.dirs # <<>>
    /\ \E i, j \in 1..Len(emitted) : IsProperPrefix(Parent(emitted[i]), Parent(emitted[j]))

\* a symlink to one of its own ancestors, in a directory the traversal listed
LoopSeen ==
    \E p \in DOMAIN startFs :
        /\ startFs[p].kind = "link"
        /\ IsProperPrefix(startFs[p].target, p)
        /\ Parent(p) \in Range(listed)

\* C9 as stated: the sequence ends only if the tree holds no symlink loop.
C9_EndsOnlyWithoutLoop == Complete => ~LoopSeen

\* C9 amended: a traversal whose consumer keeps pulling always reaches its
\* end, and no directory is ever listed through a symlink.
C9_AlwaysTerminates ==
    /\ (pc = "created") ~> (pc = "done")
    /\ [](\A d \in Attempted : \A i \in 1..Len(d) :
             LET q == SubSeq(d, 1, i) IN q \in DOMAIN fs => fs[q].kind # "link")

C9_Witness == Complete /\ LoopSeen /\ (p_sub \o <<f_b_PY>>) \in EmittedSet

\* C10: a root whose own name, or the name of a directory above it, is an
\* ignored name is listed all the same and its matching files are emitted.
C10_RootNotFiltered ==
    (Complete /\ ScandirOk(startFs, Root) /\ \E i \in 1..Len(Root) : Root[i] \in IgnoreDirs) =>
        /\ Root \in Range(listed)
        /\ \A f \in FileNames(startFs, Root) :
              SuffixIn(f, walker.extensions) => Join(Root, f) \in EmittedSet

C10_Witness ==
    /\ Complete
    /\ Basename(Root) = n_build
    /\ (p_build \o <<f_o_py>>) \in EmittedSet
    /\ (p_build \o <<n_ENV, f_z_py>>) \in EmittedSet

====
